---- MODULE Spec2Model ----
(***************************************************************************)
(* Model of monitor_tabelas.py: the reconciliation of the cached IBPTax    *)
(* tables (processar_arquivo and the functions it calls), the batch run    *)
(* executar_uma_vez, and the ways a batch run is started.                   *)
(*                                                                         *)
(* The program imports winreg, so it runs on Windows only; the file system *)
(* is modelled with the Windows behaviour of the calls the code makes:     *)
(* Path.rename fails when the target exists, Path.replace and Path.unlink  *)
(* fail while another handle holds the file open, open(..., "wb")          *)
(* truncates and succeeds while another writer holds the file open.        *)
(***************************************************************************)
EXTENDS Integers, Sequences, FiniteSets, TLC

VARIABLES
    fs,      \* the base directory: file name -> content (a sequence of chunks)
    today,   \* date.today(), as an index into the calendar Cal
    lock,    \* MonitorTabelaIBPTax.lock: "free" or the process that created it
    st,      \* per process: position in the code and the locals of the call
    cur,     \* per process: record of its latest reconciliation
    hist,    \* per process and file: how its previous reconciliation ended
    runs,    \* per process: how many batch runs it has started
    faults,  \* how many times the operating system or the network failed
    inst     \* per instance started in a periodic mode: where it stands

vars == <<fs, today, lock, inst, st, cur, hist, runs, faults, inst>>

-----------------------------------------------------------------------------
(* Bounds of the model *)

\* Days of the calendar the current date ranges over.
MaxDay == 2

\* Batch runs one process starts in the sequential specification.
MaxRuns == 2

\* Batch runs each process starts in the concurrent specification.
ConcRuns == 1

\* Processes that start a batch run in one behaviour of the concurrent
\* specification.
MaxConcurrent == 2

\* Failures of the operating system or of the connection in one behaviour:
\* a refused rename, open, replace or unlink, a broken stream.
MaxFaults == 1

\* Largest "(N)" suffix the search for a free dated name tries.
MaxSuffix == 2

(* Program constants *)

\* len(ARQUIVOS_ORIGINAIS)
NFiles == 2

Files == 1..NFiles

\* The ways a batch run is started: the scheduler's cycle of one instance
\* and of another, the tray's "Verificar agora" thread, a process started
\* with --once.
Procs == {"sched", "sched2", "tray", "once"}

\* The instances started in a periodic mode, named after the process that
\* runs their cycles.
Insts == {"sched", "sched2"}

-----------------------------------------------------------------------------
(* Dates.  A datetime.date is the tuple <<year, month, day>>; dates are    *)
(* compared as Python compares them, field by field from the year.         *)

NaT == <<0, 0, 0>>

Cal(k) == IF k = 1 THEN <<2000, 12, 31>> ELSE <<2001, 1, k - 1>>

DateLT(a, b) ==
    \/ a[1] < b[1]
    \/ a[1] = b[1] /\ a[2] < b[2]
    \/ a[1] = b[1] /\ a[2] = b[2] /\ a[3] < b[3]

\* The text of one cell of the column: "DD/MM/YYYY", blank, or other text.
DateCell(dd, mm, yyyy) == [kind |-> "date", dd |-> dd, mm |-> mm, yyyy |-> yyyy]
BlankCell == [kind |-> "blank", dd |-> 0, mm |-> 0, yyyy |-> 0]
TextCell == [kind |-> "text", dd |-> 0, mm |-> 0, yyyy |-> 0]

\* pd.to_datetime(..., dayfirst=True, errors="coerce") on one cell.
ParseCell(c) ==
    IF c.kind = "date" /\ c.mm \in 1..12 /\ c.dd \in 1..31
    THEN <<c.yyyy, c.mm, c.dd>>
    ELSE NaT

\* (mutant) the month first
StrftimeMonthFirst(d) == <<d[2], d[3], d[1]>>

\* data_vencimento.strftime("%d-%m-%Y"): day first.
Strftime(d) == <<d[3], d[2], d[1]>>

RECURSIVE MaxDate(_)
MaxDate(S) ==
    LET x == CHOOSE y \in S : TRUE
    IN  IF S = {x} THEN x
        ELSE LET m == MaxDate(S \ {x}) IN IF DateLT(m, x) THEN x ELSE m

-----------------------------------------------------------------------------
(* File names and contents *)

\* caminho: base_dir / ARQUIVOS_ORIGINAIS[f]
Canon(f) == [file |-> f, date |-> NaT, n |-> 0, tmp |-> FALSE]

\* destino.with_suffix(destino.suffix + ".tmp")
Tmp(f) == [file |-> f, date |-> NaT, n |-> 0, tmp |-> TRUE]

\* "<stem>_<DD-MM-YYYY><suffix>" (n = 0) and "<stem>_<DD-MM-YYYY>(n)<suffix>"
Dated(f, dmy, n) == [file |-> f, date |-> dmy, n |-> n, tmp |-> FALSE]

IsDated(nm) == nm.date # NaT

Exists(fsys, nm) == nm \in DOMAIN fsys

\* A content is a sequence of chunks.  The first chunk carries the encoding
\* and the header line; every chunk carries one cell of the date column.
HeadChunk(enc, hdr, cell) == [enc |-> enc, hdr |-> hdr, cell |-> cell]
RowChunk(cell) == [enc |-> "-", hdr |-> "-", cell |-> cell]
Hole == [enc |-> "nul", hdr |-> "nul", cell |-> BlankCell]

OldCell == DateCell(30, 12, 2000)
EveCell == DateCell(31, 12, 2000)
NewYearCell == DateCell(1, 1, 2001)
FarCell == DateCell(31, 12, 2099)

EmptyBody == << >>
FreshBody == <<HeadChunk("utf-8", "vigenciafim", FarCell), RowChunk(NewYearCell)>>
StaleBody == <<HeadChunk("utf-8", "vigenciafim", EveCell), RowChunk(OldCell)>>

OldFile == <<HeadChunk("latin-1", "vigenciafim", OldCell), RowChunk(TextCell)>>

\* What the server may answer a GET with.
ServerBodies == {EmptyBody, FreshBody, StaleBody}

NoDatesFile == <<HeadChunk("utf-8", "vigenciafim", TextCell), RowChunk(BlankCell)>>
NoColumnFile == <<HeadChunk("utf-8", "codigo", FarCell), RowChunk(FarCell)>>
BinaryFile == <<HeadChunk("binary", "vigenciafim", FarCell), RowChunk(FarCell)>>

\* Files the directory may hold when the program starts.
InitFiles == {FreshBody, StaleBody, OldFile, NoDatesFile, NoColumnFile, BinaryFile}

\* Those the last table of the list starts from.
InitFilesLast == {StaleBody, NoDatesFile}

\* A content some decoding reads, and one that has the date column.
Readable(content) == Len(content) > 0 /\ content[1].enc \in {"utf-8", "latin-1"}

HasColumn(content) == Readable(content) /\ content[1].hdr = "vigenciafim"

-----------------------------------------------------------------------------
(* ler_csv and verificar_validade *)

\* The keyword arguments ler_csv tries, in order.
tentativas == <<"default", "utf-8", "latin-1">>

\* pd.read_csv(caminho, sep=None, engine="python", **kwargs) succeeds.
ReadCsvOk(content, kwargs) ==
    /\ Len(content) > 0
    /\ \/ content[1].enc = "utf-8"
       \/ content[1].enc = "latin-1" /\ kwargs = "latin-1"

\* The index of the first attempt that parses the content, 0 when none does.
RECURSIVE LerCsvFrom(_, _)
LerCsvFrom(content, k) ==
    IF k > Len(tentativas) THEN 0
    ELSE IF ReadCsvOk(content, tentativas[k]) THEN k
    ELSE LerCsvFrom(content, k + 1)

ler_csv(content) == LerCsvFrom(content, 1)

\* (mutant) the column is not looked for
TemColunaSempre(content) == TRUE

\* "vigenciafim" in df.columns
TemColuna(content) == content[1].hdr = "vigenciafim"

\* datas_validas: the cells of the column that parse to a date
DatasValidas(content) ==
    { ParseCell(content[j].cell) : j \in 1..Len(content) } \ {NaT}

\* (mutant) the earliest date instead of the latest
PrimeiraData(datas) ==
    CHOOSE d \in datas : \A e \in datas : ~DateLT(e, d)

\* ultima_data = max(datas_validas)
UltimaData(datas) == MaxDate(datas)

\* (mutant) the comparison turned around
ExpiradoAoContrario(ultima_data, hoje) == DateLT(hoje, ultima_data)

\* (mutant) a file is expired from its last day of validity on
ExpiradoDesdeHoje(ultima_data, hoje) == ~DateLT(hoje, ultima_data)

\* expirado = ultima_data < hoje
Expirado(ultima_data, hoje) == DateLT(ultima_data, hoje)

Verdict(err, expirado, data) == [err |-> err, expirado |-> expirado, data |-> data]

\* verificar_validade(caminho): the exception it raises ("none": it returns)
\* and the pair (expirado, ultima_data) it returns.
verificar_validade(fsys, f, hoje) ==
    IF ~Exists(fsys, Canon(f)) THEN Verdict("FileNotFoundError", FALSE, NaT)
    ELSE LET content == fsys[Canon(f)] IN
         IF ler_csv(content) = 0 THEN Verdict("RuntimeError_ler", FALSE, NaT)
         ELSE IF ~TemColuna(content) THEN Verdict("ValueError_coluna", FALSE, NaT)
         ELSE IF DatasValidas(content) = {} THEN Verdict("ValueError_datas", FALSE, NaT)
         ELSE LET ultima_data == UltimaData(DatasValidas(content))
              IN  Verdict("none", Expirado(ultima_data, Cal(hoje)), ultima_data)

-----------------------------------------------------------------------------
(* renomear_arquivo_antigo: the choice of the new name *)

\* The smallest contador >= k whose candidate name is free; the search
\* stops at MaxSuffix + 1.
RECURSIVE ProximoLivre(_, _, _, _)
ProximoLivre(fsys, f, dmy, k) ==
    IF k > MaxSuffix \/ ~Exists(fsys, Dated(f, dmy, k)) THEN k
    ELSE ProximoLivre(fsys, f, dmy, k + 1)

\* (mutant) the counter starts at 2
NovoCaminhoDesde2(fsys, f, dmy) ==
    IF ~Exists(fsys, Dated(f, dmy, 0)) THEN 0 ELSE ProximoLivre(fsys, f, dmy, 2)

\* novo_caminho of lines 153-164, as the counter of the name (0: no suffix).
NovoCaminho(fsys, f, dmy) ==
    IF ~Exists(fsys, Dated(f, dmy, 0)) THEN 0 ELSE ProximoLivre(fsys, f, dmy, 1)

-----------------------------------------------------------------------------
(* File system operations *)

Remove(fsys, nm) == [x \in DOMAIN fsys \ {nm} |-> fsys[x]]

Put(fsys, nm, content) == (nm :> content) @@ fsys

\* os.rename / os.replace once they go through
Move(fsys, src, dst) == Put(Remove(fsys, src), dst, fsys[src])

\* f.write(chunk) at the handle's own offset; a write past the end of a file
\* another writer truncated leaves a hole before it.
WriteAt(content, pos, chunk) ==
    IF pos < Len(content) THEN [content EXCEPT ![pos + 1] = chunk]
    ELSE content \o [j \in 1..(pos - Len(content)) |-> Hole] \o <<chunk>>

\* (mutant) the size is not looked at
TamanhoZeroNunca(content) == FALSE

\* temporario.stat().st_size == 0
TamanhoZero(content) == Len(content) = 0

-----------------------------------------------------------------------------
(* The state of a process and the record of a reconciliation *)

\* Outcomes of processar_arquivo: the three ways it returns True, its
\* return of False, and an exception that leaves it ("raised").
Success == {"downloaded-new", "replaced-expired", "still-valid"}

\* How a reconciliation ended, in which run and on which day, and whether
\* the file it started from had the date column.
NoHist == [outcome |-> "none", run |-> 0, day |-> 0, col |-> FALSE]

NoRec(fsys) ==
    [ outcome |-> "none",     \* how processar_arquivo ended
      err |-> "none",         \* the exception that ended it
      file |-> 0,             \* the file reconciled
      run |-> 0,              \* the batch run it belongs to
      day |-> 0,              \* the current date when it started
      fs0 |-> fsys,           \* the directory when it started
      fs1 |-> fsys,           \* the directory when it ended
      verdict |-> "none",     \* "absent", "valid", "expired" or "error"
      data |-> NaT,           \* data_venc
      renamed |-> FALSE,      \* caminho.rename went through
      n |-> 0,                \* the counter of the name it renamed to
      gets |-> 0,             \* the HTTP GETs it issued
      dl |-> "none",          \* how the download ended
      got |-> EmptyBody,      \* the body moved onto the canonical path
      stuck |-> FALSE,        \* the unlink of the temporary file failed
      before |-> NoHist ]     \* the reconciliation of the same file before it

\* An instance that has not been started.
Off ==
    [ pc |-> "off",           \* where the instance stands
      mode |-> "none",        \* "headless" or "tray"
      stop |-> FALSE,         \* stop_event.is_set()
      ticks |-> 0,            \* the one-second ticks of the wait that passed
      code |-> -1,            \* what executar_em_background returned
      how |-> "none" ]        \* how the instance left the periodic mode

Idle ==
    [ pc |-> "idle", i |-> 1, falha |-> FALSE, data |-> NaT, n |-> 0,
      body |-> EmptyBody, pos |-> 0, code |-> -1 ]

\* Process q holds a handle on the temporary file of f, open for writing.
\* The handles of a process that has ended are closed.
Holds(q, f) ==
    /\ st[q].pc \in {"write", "stat"} /\ st[q].i = f
    /\ q \in Insts => inst[q].pc # "exited"

HeldByOther(p, f) == \E q \in Procs \ {p} : Holds(q, f)

\* processar_arquivo is running in process q.
Reconciling(q) ==
    st[q].pc \in {"exists", "check", "pick", "rename", "get", "open", "write",
                  "stat", "replace", "cleanup"}

\* The directories whose canonical files are absent or drawn from S.
Directories(S) ==
    [{Canon(f) : f \in Files} -> S]
        \cup { [nm \in {Canon(f)} |-> c] : f \in Files, c \in S }
        \cup { [nm \in {} |-> EmptyBody] }

Start(dirs) ==
    /\ fs \in dirs
    /\ today = 1
    /\ lock = "free"
    /\ st = [p \in Procs |-> Idle]
    /\ cur = [p \in Procs |-> NoRec(fs)]
    /\ hist = [p \in Procs |-> [f \in Files |-> NoHist]]
    /\ runs = [p \in Procs |-> 0]
    /\ faults = 0
    /\ inst = [i \in Insts |-> Off]

\* Expired tables of earlier years that earlier runs renamed: none, one
\* under the plain dated name, or two with the name "(1)" free between them.
Archives(d) ==
    LET dmy == Strftime(ParseCell(OldCell))
        one == Put(d, Dated(1, dmy, 0), OldFile)
    IN  IF Exists(d, Canon(1)) /\ d[Canon(1)] = OldFile
        THEN {d, one, Put(one, Dated(1, dmy, MaxSuffix), OldFile)}
        ELSE {d}

\* Whether a call fails for a reason outside the program.
Refusals == IF faults < MaxFaults THEN BOOLEAN ELSE {FALSE}

Charge(failed) == faults' = IF failed THEN faults + 1 ELSE faults

Init ==
    Start(UNION { Archives(d) :
                    d \in { e \in Directories(InitFiles) :
                              Exists(e, Canon(NFiles)) => e[Canon(NFiles)] \in InitFilesLast } })

\* The concurrent specification starts from an expired or a missing table.
InitConc ==
    Start({ d \in Directories({OldFile, FreshBody}) :
              /\ Exists(d, Canon(NFiles)) /\ d[Canon(NFiles)] = FreshBody
              /\ Exists(d, Canon(1)) => d[Canon(1)] = OldFile })

-----------------------------------------------------------------------------
(* executar_uma_vez and processar_arquivo, step by step *)

\* processar_arquivo ends with the record c and the directory fsAfter; the
\* loop of executar_uma_vez goes on to the next file, or returns.  An
\* exception that leaves processar_arquivo leaves executar_uma_vez as well.
Finish(p, c, fsAfter) ==
    LET f == st[p].i
        rec == [c EXCEPT !.fs1 = fsAfter]
        falha == st[p].falha \/ rec.outcome = "failed"
    IN  /\ cur' = [cur EXCEPT ![p] = rec]
        /\ hist' = [hist EXCEPT ![p][f] =
                      [outcome |-> rec.outcome, run |-> rec.run, day |-> rec.day,
                       col |-> /\ Exists(rec.fs0, Canon(f))
                               /\ HasColumn(rec.fs0[Canon(f)])]]
        /\ st' = [st EXCEPT ![p] =
                    IF rec.outcome = "raised"
                    THEN [Idle EXCEPT !.pc = "crashed", !.i = f, !.falha = falha]
                    ELSE IF f < NFiles
                    THEN [Idle EXCEPT !.pc = "exists", !.i = f + 1, !.falha = falha]
                    ELSE [Idle EXCEPT !.pc = "done", !.i = f, !.falha = falha,
                                      !.code = IF falha THEN 1 ELSE 0]]

Ended(c, outcome, err) == [c EXCEPT !.outcome = outcome, !.err = err]

\* executar_uma_vez is entered.
Begin(p, limit) ==
    /\ st[p].pc \in {"idle", "done", "crashed"}
    /\ runs[p] < limit
    /\ Cardinality({q \in Procs \ {p} : runs[q] > 0}) < MaxConcurrent
    /\ runs' = [runs EXCEPT ![p] = @ + 1]
    /\ st' = [st EXCEPT ![p] = [Idle EXCEPT !.pc = "exists"]]
    /\ UNCHANGED <<fs, today, cur, hist, faults>>

\* main with --once: executar_uma_vez, before any look at the lock file.
StartOnce == Begin("once", MaxRuns) /\ UNCHANGED <<lock, inst>>

\* The same, started while other batch runs may be under way.
StartOnceBeside == Begin("once", ConcRuns) /\ UNCHANGED <<lock, inst>>

\* acao_verificar_agora: a thread running executar_uma_vez.
StartTray == Begin("tray", ConcRuns) /\ UNCHANGED <<lock, inst>>

\* executar_em_background: _acquire_lock, then the first cycle.
StartSched ==
    lock = "free" /\ lock' = "sched" /\ Begin("sched", ConcRuns) /\ UNCHANGED inst

\* if not caminho.exists()
PathExists(p) ==
    LET f == st[p].i
        c == [NoRec(fs) EXCEPT !.file = f, !.run = runs[p], !.day = today,
                               !.before = hist[p][f]]
    IN  /\ st[p].pc = "exists"
        /\ IF Exists(fs, Canon(f))
           THEN /\ st' = [st EXCEPT ![p].pc = "check"]
                /\ cur' = [cur EXCEPT ![p] = c]
           ELSE /\ st' = [st EXCEPT ![p].pc = "get"]
                /\ cur' = [cur EXCEPT ![p] = [c EXCEPT !.verdict = "absent"]]
        /\ UNCHANGED <<fs, today, lock, inst, hist, runs, faults>>

\* expirado, data_venc = verificar_validade(caminho)
Check(p) ==
    LET f == st[p].i
        v == verificar_validade(fs, f, today)
    IN  /\ st[p].pc = "check"
        /\ IF v.err # "none"
           THEN Finish(p, Ended([cur[p] EXCEPT !.verdict = "error"], "failed", v.err), fs)
           ELSE IF ~v.expirado
           THEN Finish(p, Ended([cur[p] EXCEPT !.verdict = "valid", !.data = v.data],
                                "still-valid", "none"), fs)
           ELSE /\ st' = [st EXCEPT ![p].pc = "pick", ![p].data = v.data]
                /\ cur' = [cur EXCEPT ![p].verdict = "expired", ![p].data = v.data]
                /\ UNCHANGED hist
        /\ UNCHANGED <<fs, today, lock, inst, runs, faults>>

\* renomear_arquivo_antigo, lines 149-164: the new name is chosen.
Pick(p) ==
    LET f == st[p].i
        n == NovoCaminho(fs, f, Strftime(st[p].data))
    IN  /\ st[p].pc = "pick"
        /\ IF ~Exists(fs, Canon(f))
           THEN Finish(p, Ended(cur[p], "failed", "FileNotFoundError"), fs)
           ELSE /\ n <= MaxSuffix
                /\ st' = [st EXCEPT ![p].pc = "rename", ![p].n = n]
                /\ UNCHANGED <<cur, hist>>
        /\ UNCHANGED <<fs, today, lock, inst, runs, faults>>

\* caminho.rename(novo_caminho).  The operating system may refuse it
\* (the file is open in another program, access denied): an OSError that
\* processar_arquivo does not catch.
Rename(p) ==
    LET f == st[p].i
        novo == Dated(f, Strftime(st[p].data), st[p].n)
    IN  /\ st[p].pc = "rename"
        /\ \E refused \in Refusals :
             IF ~Exists(fs, Canon(f))
             THEN /\ Finish(p, Ended(cur[p], "failed", "FileNotFoundError"), fs)
                  /\ UNCHANGED <<fs, faults>>
             ELSE IF Exists(fs, novo)
             THEN /\ Finish(p, Ended(cur[p], "raised", "FileExistsError"), fs)
                  /\ UNCHANGED <<fs, faults>>
             ELSE IF refused
             THEN /\ Finish(p, Ended(cur[p], "raised", "PermissionError"), fs)
                  /\ UNCHANGED fs
                  /\ Charge(TRUE)
             ELSE /\ fs' = Move(fs, Canon(f), novo)
                  /\ st' = [st EXCEPT ![p].pc = "get"]
                  /\ cur' = [cur EXCEPT ![p].renamed = TRUE, ![p].n = st[p].n]
                  /\ UNCHANGED <<hist, faults>>
        /\ UNCHANGED <<today, lock, inst, runs>>

\* requests.get(...) and resp.raise_for_status(): a status that is not 2xx
\* (a connection error takes the same path), or a response with a body.
Get(p) ==
    /\ st[p].pc = "get"
    /\ \E answer \in {"non-2xx", "ok"} :
         IF answer # "ok"
         THEN Finish(p, Ended([cur[p] EXCEPT !.dl = answer, !.gets = @ + 1],
                              "failed", "RuntimeError_download"), fs)
         ELSE \E body \in ServerBodies :
                /\ st' = [st EXCEPT ![p].pc = "open", ![p].body = body]
                /\ cur' = [cur EXCEPT ![p].gets = @ + 1]
                /\ UNCHANGED hist
    /\ UNCHANGED <<fs, today, lock, inst, runs, faults>>

\* open(temporario, "wb")
Open(p) ==
    LET f == st[p].i
    IN  /\ st[p].pc = "open"
        /\ \E refused \in Refusals :
             IF refused
             THEN /\ st' = [st EXCEPT ![p].pc = "cleanup"]
                  /\ cur' = [cur EXCEPT ![p].dl = "save-error"]
                  /\ UNCHANGED fs
                  /\ Charge(TRUE)
             ELSE /\ fs' = Put(fs, Tmp(f), << >>)
                  /\ st' = [st EXCEPT ![p].pc = IF st[p].body = << >> THEN "stat"
                                                ELSE "write",
                                      ![p].pos = 0]
                  /\ UNCHANGED <<cur, faults>>
        /\ UNCHANGED <<today, lock, inst, hist, runs>>

\* for chunk in resp.iter_content(...): f.write(chunk)
Write(p) ==
    LET f == st[p].i
        k == st[p].pos
    IN  /\ st[p].pc = "write"
        /\ \E broken \in Refusals :
             IF broken
             THEN /\ st' = [st EXCEPT ![p].pc = "cleanup"]
                  /\ cur' = [cur EXCEPT ![p].dl = "save-error"]
                  /\ UNCHANGED fs
                  /\ Charge(TRUE)
             ELSE /\ fs' = [fs EXCEPT ![Tmp(f)] = WriteAt(@, k, st[p].body[k + 1])]
                  /\ st' = [st EXCEPT ![p].pos = k + 1,
                                      ![p].pc = IF k + 1 = Len(st[p].body)
                                                THEN "stat" ELSE "write"]
                  /\ UNCHANGED <<cur, faults>>
        /\ UNCHANGED <<today, lock, inst, hist, runs>>

\* The file is closed; if temporario.stat().st_size == 0: raise
Stat(p) ==
    LET f == st[p].i
    IN  /\ st[p].pc = "stat"
        /\ IF ~Exists(fs, Tmp(f))
           THEN /\ st' = [st EXCEPT ![p].pc = "cleanup"]
                /\ cur' = [cur EXCEPT ![p].dl = "save-error"]
           ELSE IF TamanhoZero(fs[Tmp(f)])
           THEN /\ st' = [st EXCEPT ![p].pc = "cleanup"]
                /\ cur' = [cur EXCEPT ![p].dl = IF st[p].body = << >> THEN "empty"
                                                ELSE "save-error"]
           ELSE /\ st' = [st EXCEPT ![p].pc = "replace"]
                /\ UNCHANGED cur
        /\ UNCHANGED <<fs, today, lock, inst, hist, runs, faults>>

\* temporario.replace(destino), and the return of True
Replace(p) ==
    LET f == st[p].i
        moved == Move(fs, Tmp(f), Canon(f))
    IN  /\ st[p].pc = "replace"
        /\ \E refused \in Refusals :
             IF refused \/ ~Exists(fs, Tmp(f)) \/ HeldByOther(p, f)
             THEN /\ st' = [st EXCEPT ![p].pc = "cleanup"]
                  /\ cur' = [cur EXCEPT ![p].dl = "save-error"]
                  /\ UNCHANGED <<fs, hist>>
                  /\ Charge(refused /\ Exists(fs, Tmp(f)) /\ ~HeldByOther(p, f))
             ELSE /\ fs' = moved
                  /\ Finish(p, Ended([cur[p] EXCEPT !.dl = "ok", !.got = fs[Tmp(f)]],
                                     IF cur[p].verdict = "absent" THEN "downloaded-new"
                                     ELSE "replaced-expired", "none"), moved)
                  /\ UNCHANGED faults
        /\ UNCHANGED <<today, lock, inst, runs>>

\* (mutant) the temporary file is left behind
UnlinkedNever(fsys, nm, blocked) == fsys

\* if temporario.exists(): temporario.unlink(missing_ok=True), errors swallowed
Unlinked(fsys, nm, blocked) ==
    IF Exists(fsys, nm) /\ ~blocked THEN Remove(fsys, nm) ELSE fsys

\* except Exception: the temporary file is unlinked if it exists, and
\* RuntimeError("Erro ao salvar ...") is raised.  The unlink fails while
\* another handle holds the file, or when the operating system refuses it.
Cleanup(p) ==
    LET f == st[p].i
    IN  /\ st[p].pc = "cleanup"
        /\ \E refused \in Refusals :
             LET blocked == refused \/ HeldByOther(p, f)
                 after == Unlinked(fs, Tmp(f), blocked)
             IN  /\ fs' = after
                 /\ Charge(refused /\ Exists(fs, Tmp(f)) /\ ~HeldByOther(p, f))
                 /\ Finish(p, Ended([cur[p] EXCEPT !.stuck = Exists(fs, Tmp(f)) /\ blocked],
                                    "failed", "RuntimeError_salvar"), after)
        /\ UNCHANGED <<today, lock, inst, runs>>

\* Midnight passes while no batch run is under way.
AdvanceDay ==
    /\ today < MaxDay
    /\ \A p \in Procs : ~Reconciling(p)
    /\ today' = today + 1
    /\ UNCHANGED <<fs, lock, inst, st, cur, hist, runs, faults>>

Step(p) ==
    \/ PathExists(p)
    \/ Check(p)
    \/ Pick(p)
    \/ Rename(p)
    \/ Get(p)
    \/ Open(p)
    \/ Write(p)
    \/ Stat(p)
    \/ Replace(p)
    \/ Cleanup(p)

\* One process at a time: repeated runs with --once.
Next == StartOnce \/ AdvanceDay \/ Step("once")

Spec == Init /\ [][Next]_vars

\* The scheduler's cycle, the tray's thread and a --once process together.
NextConc == StartOnceBeside \/ StartTray \/ StartSched \/ (\E p \in Procs : Step(p))

SpecConc == InitConc /\ [][NextConc]_vars

-----------------------------------------------------------------------------
(* The periodic modes: main, executar_em_background, executar_com_tray *)

\* Cycles one instance starts.
MaxCycles == 2

\* total_segundos = max(1, int(intervalo_minutos * 60)): the one-second
\* ticks of the wait between two cycles.
total_segundos == 2

Modes == {"headless", "tray"}

\* The instance is inside the loop of executar_em_background.
InLoop(i) == inst[i].pc \in {"loop", "cycle", "wait"}

\* The instance has left the periodic mode: its process has ended, or only
\* its tray icon is left.
Left(i) == inst[i].pc \in {"exited", "trayonly"}

\* (mutant) the lock file is opened for writing, whether it exists or not
CriavelSempre(l) == TRUE

\* open(lock_path, "x") creates the file: there is none.
Criavel(l) == l = "free"

\* _release_lock(lock_path): the file at the path of the lock, if there is
\* one, is unlinked, whoever created it.
Liberado(l) == "free"

\* (mutant) the wait never looks at the stop flag
InterrompidaNunca(parou) == FALSE

\* stop_event.wait(1) returns True
Interrompida(parou) == parou

\* (mutant) the wait ends after its first tick
FimDaEsperaJa(ticks) == TRUE

\* for _ in range(total_segundos) is exhausted
FimDaEspera(ticks) == ticks = total_segundos

\* The worker of the instance is gone.  In headless mode the process ends
\* with it; in tray mode the process lives on with its icon until "Sair",
\* and ends at once when "Sair" was chosen before.
After(i) ==
    IF inst[i].mode = "tray" /\ ~inst[i].stop THEN "trayonly" ELSE "exited"

\* The thread of the instance ends where it stands, inside a reconciliation
\* or not: its locals are gone, and a reconciliation it was in never ends.
Dropped(i) ==
    /\ st' = [st EXCEPT ![i] = [Idle EXCEPT !.pc = "dropped"]]
    /\ cur' = [cur EXCEPT ![i] = IF Reconciling(i) THEN NoRec(fs) ELSE @]

\* main: the process is started with --headless or with no flag.  With a
\* lock file in the directory it says that the monitor is running and
\* returns 0.
Launch(i) ==
    /\ inst[i].pc = "off"
    /\ \E mode \in Modes :
         inst' = [inst EXCEPT ![i] =
                    IF lock # "free"
                    THEN [@ EXCEPT !.pc = "exited", !.mode = mode, !.how = "precheck"]
                    ELSE [@ EXCEPT !.pc = "passed", !.mode = mode]]
    /\ UNCHANGED <<fs, today, lock, st, cur, hist, runs, faults>>

\* executar_em_background, lines 287-293: _acquire_lock, and return 1 when
\* it raises.  In tray mode the caller is the worker thread.
Acquire(i) ==
    /\ inst[i].pc = "passed"
    /\ IF Criavel(lock)
       THEN /\ lock' = i
            /\ inst' = [inst EXCEPT ![i].pc = "loop"]
       ELSE /\ inst' = [inst EXCEPT ![i].pc = After(i), ![i].how = "lock-held",
                                    ![i].code = 1]
            /\ UNCHANGED lock
    /\ UNCHANGED <<fs, today, st, cur, hist, runs, faults>>

\* while not stop_event.is_set(): exit_code = executar_uma_vez(base_dir)
StartCycle(i) ==
    /\ inst[i].pc = "loop"
    /\ ~inst[i].stop
    /\ Begin(i, MaxCycles)
    /\ inst' = [inst EXCEPT ![i].pc = "cycle"]
    /\ UNCHANGED lock

\* while not stop_event.is_set() with the flag set: the loop ends, and
\* finally: _release_lock(lock_path)
LoopExit(i) ==
    /\ inst[i].pc = "loop"
    /\ inst[i].stop
    /\ lock' = Liberado(lock)
    /\ inst' = [inst EXCEPT ![i].pc = "exited", ![i].how = "stopped", ![i].code = 0]
    /\ UNCHANGED <<fs, today, st, cur, hist, runs, faults>>

\* One step of executar_uma_vez in the cycle of the instance.
Cycle(i) == inst[i].pc = "cycle" /\ Step(i)

\* executar_uma_vez returned: the wait begins.
CycleDone(i) ==
    /\ inst[i].pc = "cycle"
    /\ st[i].pc = "done"
    /\ inst' = [inst EXCEPT ![i].pc = "wait", ![i].ticks = 0]
    /\ UNCHANGED <<fs, today, lock, st, cur, hist, runs, faults>>

\* An exception left executar_uma_vez: finally: _release_lock(lock_path),
\* and the exception leaves executar_em_background.
CycleRaised(i) ==
    /\ inst[i].pc = "cycle"
    /\ st[i].pc = "crashed"
    /\ lock' = Liberado(lock)
    /\ inst' = [inst EXCEPT ![i].pc = After(i), ![i].how = "raised"]
    /\ UNCHANGED <<fs, today, st, cur, hist, runs, faults>>

\* if stop_event.wait(1): break
Tick(i) ==
    /\ inst[i].pc = "wait"
    /\ inst' = [inst EXCEPT ![i] =
                  IF Interrompida(inst[i].stop)
                  THEN [@ EXCEPT !.pc = "loop"]
                  ELSE [@ EXCEPT !.ticks = @ + 1,
                                 !.pc = IF FimDaEspera(inst[i].ticks + 1)
                                        THEN "loop" ELSE "wait"]]
    /\ UNCHANGED <<fs, today, lock, st, cur, hist, runs, faults>>

\* acao_sair: stop_event.set() and icon.stop(); executar_com_tray goes on to
\* its finally.  With the worker gone already the process ends.
Sair(i) ==
    /\ inst[i].mode = "tray"
    /\ InLoop(i) \/ inst[i].pc = "trayonly"
    /\ ~inst[i].stop
    /\ inst' = [inst EXCEPT ![i].stop = TRUE,
                            ![i].pc = IF @ = "trayonly" THEN "exited" ELSE @]
    /\ UNCHANGED <<fs, today, lock, st, cur, hist, runs, faults>>

\* finally: stop_event.set(); worker.join(timeout=5); return 0.  The join
\* gives up while the worker, a daemon thread, is still inside a cycle; the
\* process ends and the thread with it, wherever it stands.
JoinTimeout(i) ==
    /\ inst[i].mode = "tray"
    /\ inst[i].stop
    /\ inst[i].pc = "cycle"
    /\ Reconciling(i)
    /\ inst' = [inst EXCEPT ![i].pc = "exited", ![i].how = "killed"]
    /\ Dropped(i)
    /\ UNCHANGED <<fs, today, lock, hist, runs, faults>>

\* except KeyboardInterrupt: return 0, and finally: _release_lock(lock_path).
\* Ctrl+C reaches the main thread, which runs the loop in headless mode.
Interrupt(i) ==
    /\ inst[i].mode = "headless"
    /\ InLoop(i)
    /\ lock' = Liberado(lock)
    /\ inst' = [inst EXCEPT ![i].pc = "exited", ![i].how = "interrupt", ![i].code = 0]
    /\ Dropped(i)
    /\ UNCHANGED <<fs, today, hist, runs, faults>>

\* The steps of the thread that runs executar_em_background.
Worker(i) ==
    \/ StartCycle(i)
    \/ LoopExit(i)
    \/ Cycle(i)
    \/ CycleDone(i)
    \/ CycleRaised(i)
    \/ Tick(i)

NextSched ==
    \E i \in Insts :
        \/ Launch(i)
        \/ Acquire(i)
        \/ StartCycle(i)
        \/ LoopExit(i)
        \/ Cycle(i)
        \/ CycleDone(i)
        \/ CycleRaised(i)
        \/ Tick(i)
        \/ Sair(i)
        \/ JoinTimeout(i)
        \/ Interrupt(i)

\* Two instances are started in periodic modes, at any moments.
SpecSched == InitConc /\ [][NextSched]_vars

\* One instance alone.
NextWait ==
    \/ Launch("sched")
    \/ Acquire("sched")
    \/ StartCycle("sched")
    \/ LoopExit("sched")
    \/ Cycle("sched")
    \/ CycleDone("sched")
    \/ CycleRaised("sched")
    \/ Tick("sched")
    \/ Sair("sched")
    \/ JoinTimeout("sched")
    \/ Interrupt("sched")

\* The same with one instance, whose worker thread, while its process
\* lives, goes on whenever it can: a step of the loop or of its cycle that
\* stays possible is taken.
SpecWait == InitConc /\ [][NextWait]_vars /\ WF_vars(Worker("sched"))

-----------------------------------------------------------------------------
(* Vocabulary of the properties, stated on file contents alone (with       *)
(* Readable and HasColumn above)                                            *)

ParsedDates(content) ==
    { ParseCell(content[j].cell) : j \in 1..Len(content) } \ {NaT}

HasDates(content) == HasColumn(content) /\ ParsedDates(content) # {}

\* The validity date: the latest of the dates of the column.
ValidityDate(content) ==
    CHOOSE d \in ParsedDates(content) : \A e \in ParsedDates(content) : ~DateLT(d, e)

ExpiredOn(content, k) == HasDates(content) /\ DateLT(ValidityDate(content), Cal(k))

NotExpiredOn(content, k) == HasDates(content) /\ ~DateLT(ValidityDate(content), Cal(k))

\* The first free name for a file renamed with the date dmy: its counter.
FirstFree(fsys, f, dmy) ==
    CHOOSE k \in 0..(MaxSuffix + 1) :
        /\ k <= MaxSuffix => ~Exists(fsys, Dated(f, dmy, k))
        /\ \A j \in 0..(k - 1) : Exists(fsys, Dated(f, dmy, j))

\* The reconciliations that have ended, as their records.
Ended1 == { cur[p] : p \in {q \in Procs : cur[q].outcome # "none"} }

\* Those in which processar_arquivo returned True or False.
Returned == { r \in Ended1 : r.outcome # "raised" }

\* The dated files are where they were, with their contents.
SameArchive(r) ==
    \A nm \in DOMAIN r.fs0 :
        IsDated(nm) => Exists(r.fs1, nm) /\ r.fs1[nm] = r.fs0[nm]

-----------------------------------------------------------------------------
(* C1 *)

\* C1 (as claimed): whenever a reconciliation returns success, a file is at
\* the canonical path and it is not expired on the current date, also when
\* the file was just downloaded.
C1_SuccessMeansNotExpired ==
    \A r \in Ended1 :
        r.outcome \in Success =>
            /\ Exists(r.fs1, Canon(r.file))
            /\ NotExpiredOn(r.fs1[Canon(r.file)], r.day)

\* C1 (what the code does): whenever a reconciliation returns success, a file
\* is at the canonical path; with the outcome still-valid it is the file found there
\* and it is not expired on the current date; with the outcomes
\* downloaded-new and replaced-expired it is the body just downloaded, which
\* is not empty, and whose validity date nothing has checked.
C1_SuccessLeavesFile ==
    \A r \in Ended1 :
        /\ r.outcome \in Success => Exists(r.fs1, Canon(r.file))
        /\ r.outcome = "still-valid" =>
              /\ r.fs1 = r.fs0
              /\ NotExpiredOn(r.fs1[Canon(r.file)], r.day)
        /\ r.outcome \in {"downloaded-new", "replaced-expired"} =>
              /\ r.fs1[Canon(r.file)] = r.got
              /\ r.got \in ServerBodies \ {EmptyBody}

\* A reconciliation returned success after a download and left an expired
\* file at the canonical path.
C1_Witness ==
    \E r \in Ended1 :
        /\ r.outcome \in {"downloaded-new", "replaced-expired"}
        /\ ExpiredOn(r.fs1[Canon(r.file)], r.day)

-----------------------------------------------------------------------------
(* C2 *)

\* C2 (as claimed): no exception leaves processar_arquivo; every failure of
\* a step, a refused rename of the expired file included, ends in the
\* outcome failed.
C2_NoExceptionEscapes ==
    \A p \in Procs : cur[p].outcome # "raised" /\ st[p].pc # "crashed"

\* The operating system refused the rename of the expired first table: the
\* PermissionError left processar_arquivo and executar_uma_vez, the directory
\* is as it was, and the second table was never looked at.
C2_Witness ==
    \E p \in Procs :
        /\ cur[p].outcome = "raised" /\ cur[p].err = "PermissionError"
        /\ cur[p].file = 1 /\ cur[p].verdict = "expired"
        /\ cur[p].fs1 = cur[p].fs0
        /\ st[p].pc = "crashed" /\ st[p].i = 1

-----------------------------------------------------------------------------
(* C3 *)

-----------------------------------------------------------------------------
(* C4 *)

\* C4 (as claimed): with no file at the canonical path, reconciliation always
\* ends with a non-empty file there and the outcome downloaded-new.
C4_AbsentAlwaysDownloaded ==
    \A r \in Ended1 :
        ~Exists(r.fs0, Canon(r.file)) =>
            /\ r.outcome = "downloaded-new"
            /\ Exists(r.fs1, Canon(r.file)) /\ Len(r.fs1[Canon(r.file)]) > 0

\* C4 (amended): with no file at the canonical path, reconciliation ends
\* with a non-empty file there and the outcome downloaded-new when the
\* download succeeds (a 2xx status, a body that is not empty, the save goes
\* through); otherwise the outcome is failed and the canonical path stays
\* without a file.  No dated file is touched either way.
C4_AbsentDownloadedOrFailed ==
    \A r \in Ended1 :
        ~Exists(r.fs0, Canon(r.file)) =>
            /\ SameArchive(r)
            /\ \/ /\ r.outcome = "downloaded-new" /\ r.dl = "ok"
                  /\ Exists(r.fs1, Canon(r.file))
                  /\ Len(r.fs1[Canon(r.file)]) > 0
                  /\ r.fs1[Canon(r.file)] = r.got
               \/ /\ r.outcome = "failed"
                  /\ r.dl \in {"non-2xx", "empty", "save-error"}
                  /\ ~Exists(r.fs1, Canon(r.file))

\* Both ends were taken from a missing file: a download that went through
\* and a download that failed.
C4_Witness ==
    /\ \E r \in Ended1 : ~Exists(r.fs0, Canon(r.file)) /\ r.outcome = "downloaded-new"
                          /\ r.file = NFiles
    /\ hist["once"][1].outcome = "failed" /\ ~Exists(fs, Canon(1))
    /\ cur["once"].run = 1

-----------------------------------------------------------------------------
(* C5 *)

\* The reconciliation r directly follows one of the same file, on the same
\* day.
SecondOfTwo(r) ==
    /\ r.before.outcome # "none"
    /\ r.before.run + 1 = r.run
    /\ r.before.day = r.day

\* C5 (as claimed): for every initial file with the date column, the second
\* of two reconciliations in immediate succession on the same day gives
\* still-valid and changes nothing in the directory.
C5_SecondRunStillValid ==
    \A r \in Ended1 :
        (SecondOfTwo(r) /\ r.before.col) =>
            r.outcome = "still-valid" /\ r.fs1 = r.fs0

\* C5 (amended): the second of two reconciliations in immediate succession
\* on the same day gives still-valid and changes nothing in the directory
\* whenever the first returned success and the file it left at the canonical
\* path is not expired: always after a first outcome still-valid, and after
\* a download only when the downloaded file is itself not expired.
C5_SecondRunAfterValid ==
    \A r \in Ended1 :
        /\ ( /\ SecondOfTwo(r) /\ r.before.outcome \in Success
             /\ Exists(r.fs0, Canon(r.file))
             /\ NotExpiredOn(r.fs0[Canon(r.file)], r.day) ) =>
               r.outcome = "still-valid" /\ r.fs1 = r.fs0
        /\ (SecondOfTwo(r) /\ r.before.outcome = "still-valid") =>
               r.outcome = "still-valid" /\ r.fs1 = r.fs0

\* An expired file was replaced by the first run and found valid by the
\* second.
C5_Witness ==
    \E r \in Ended1 :
        /\ SecondOfTwo(r) /\ r.before.outcome = "replaced-expired"
        /\ r.outcome = "still-valid"

-----------------------------------------------------------------------------
(* C6 *)

\* C6 (as claimed): when the download of a reconciliation yields an empty
\* body or a status that is not 2xx, the reconciliation fails, the file that
\* was at the canonical path when it started is still there unchanged, and
\* no temporary file exists.  Stated of the behaviours in which the
\* operating system refuses nothing, so that a failed deletion of the
\* temporary file is not what refutes it.
C6_FailedDownloadKeepsOriginal ==
    \A r \in Ended1 :
        (faults = 0 /\ r.dl \in {"non-2xx", "empty"}) =>
            /\ r.outcome = "failed"
            /\ Exists(r.fs0, Canon(r.file)) =>
                  /\ Exists(r.fs1, Canon(r.file))
                  /\ r.fs1[Canon(r.file)] = r.fs0[Canon(r.file)]
            /\ ~Exists(r.fs1, Tmp(r.file))

\* C6 (what the code does): when the download of a reconciliation yields an
\* empty body or a status that is not 2xx, the reconciliation fails and no
\* file is at the canonical path afterwards: none was there when the download started,
\* because an expired file has by then been renamed to its dated name, where
\* its content is kept.  With a status that is not 2xx the temporary file is
\* not touched; with an empty body the temporary file is deleted, unless the
\* deletion fails, which leaves it empty.
C6_FailedDownloadLeavesNoCanonical ==
    \A r \in Ended1 :
        r.dl \in {"non-2xx", "empty"} =>
            LET f == r.file
                nm == Dated(f, <<r.data[3], r.data[2], r.data[1]>>, r.n)
            IN  /\ r.outcome = "failed"
                /\ ~Exists(r.fs1, Canon(f))
                /\ Exists(r.fs0, Canon(f)) =>
                      /\ r.renamed /\ ~Exists(r.fs0, nm)
                      /\ Exists(r.fs1, nm) /\ r.fs1[nm] = r.fs0[Canon(f)]
                /\ r.dl = "non-2xx" =>
                      /\ Exists(r.fs1, Tmp(f)) = Exists(r.fs0, Tmp(f))
                      /\ Exists(r.fs0, Tmp(f)) => r.fs1[Tmp(f)] = r.fs0[Tmp(f)]
                /\ r.dl = "empty" =>
                      \/ ~Exists(r.fs1, Tmp(f))
                      \/ r.stuck /\ r.fs1[Tmp(f)] = << >>

\* An expired file was renamed, the server sent an empty body, and the
\* temporary file was deleted.
C6_Witness ==
    \E r \in Ended1 :
        /\ r.dl = "empty" /\ r.renamed
        /\ ~Exists(r.fs1, Tmp(r.file)) /\ ~Exists(r.fs1, Canon(r.file))

-----------------------------------------------------------------------------
(* C7 *)

\* C7: the rename of an expired file overwrites nothing.  The name it takes
\* was free; it is the plain dated name when that was free, and otherwise
\* the name with the smallest counter N >= 1 that was free; the file keeps
\* its content under it; and every file that was there under a dated name is
\* still there with its content.
C7_RenameNeverOverwrites ==
    \A r \in Ended1 :
        r.renamed =>
            LET f == r.file
                dmy == <<r.data[3], r.data[2], r.data[1]>>
            IN  /\ ~Exists(r.fs0, Dated(f, dmy, r.n))
                /\ \A k \in 0..(r.n - 1) : Exists(r.fs0, Dated(f, dmy, k))
                /\ Exists(r.fs1, Dated(f, dmy, r.n))
                /\ r.fs1[Dated(f, dmy, r.n)] = r.fs0[Canon(f)]
                /\ SameArchive(r)

\* The plain name and the name with the largest counter were taken, and the
\* file was renamed to the name "(1)" between them.
C7_Witness ==
    \E r \in Ended1 :
        /\ r.renamed /\ r.n = 1
        /\ Exists(r.fs0, Dated(r.file, <<r.data[3], r.data[2], r.data[1]>>, MaxSuffix))

-----------------------------------------------------------------------------
(* C8 *)

\* C8: a file at the canonical path that can be read but lacks the date
\* column, or has the column and no date that parses, makes the
\* reconciliation fail with the error of that defect, and the directory is
\* afterwards as it was: no rename, no download, no temporary file.
C8_FormatErrorChangesNothing ==
    \A r \in Ended1 :
        LET f == r.file IN
        (Exists(r.fs0, Canon(f)) /\ Readable(r.fs0[Canon(f)])
            /\ ~HasDates(r.fs0[Canon(f)])) =>
            /\ r.outcome = "failed"
            /\ r.err = IF HasColumn(r.fs0[Canon(f)]) THEN "ValueError_datas"
                       ELSE "ValueError_coluna"
            /\ r.fs1 = r.fs0
            /\ ~r.renamed /\ r.dl = "none"

\* In one batch run the first file lacked the column and the second had no
\* date that parses; both were rejected.
C8_Witness ==
    \E r \in Ended1 :
        /\ r.file = NFiles /\ r.outcome = "failed" /\ r.err = "ValueError_datas"
        /\ Exists(r.fs0, Canon(1)) /\ ~HasColumn(r.fs0[Canon(1)])
        /\ Readable(r.fs0[Canon(1)])
        /\ hist["once"][1].outcome = "failed" /\ hist["once"][1].run = r.run

-----------------------------------------------------------------------------
(* C9 *)

\* The files that are written completely: those the directory starts with
\* and the bodies the server sends.
WholeFiles == InitFiles \cup (ServerBodies \ {EmptyBody})

\* C9 (as claimed): in every reachable state the canonical path is absent or
\* holds a completely written file, also while two reconciliations of the
\* same file run at the same time over the same temporary file.
C9_CanonicalNeverPartial ==
    \A f \in Files : Exists(fs, Canon(f)) => fs[Canon(f)] \in WholeFiles

\* A reconciliation returned success and left at the canonical path a file
\* that is only the beginning of a body.
C9_Witness ==
    \E r \in Ended1 :
        /\ r.outcome \in {"downloaded-new", "replaced-expired"}
        /\ Exists(r.fs1, Canon(r.file))
        /\ r.fs1[Canon(r.file)] \notin WholeFiles
        /\ Len(r.fs1[Canon(r.file)]) > 0

-----------------------------------------------------------------------------
(* C10 *)

\* C10 (as claimed): no two reconciliations of the same canonical file are
\* in progress at the same time, however they were started.
C10_OneReconciliationPerFile ==
    \A p, q \in Procs :
        (p # q /\ Reconciling(p) /\ Reconciling(q)) => st[p].i # st[q].i

\* The scheduler's cycle, holding the lock, and the thread of the tray's
\* "check now" are both writing the temporary file of the first table.
C10_Witness ==
    /\ lock = "sched"
    /\ st["sched"].pc = "write" /\ st["tray"].pc = "write"
    /\ st["sched"].i = 1 /\ st["tray"].i = 1

-----------------------------------------------------------------------------
(* C13 *)

\* The batch run of process p has ended: executar_uma_vez returned, or an
\* exception left it.
BatchEnded(p) == st[p].pc \in {"done", "crashed"}

\* The files that the last batch run of process p reconciled.
Processed(p) == { f \in Files : hist[p][f].run = runs[p] }

\* C13 (as claimed): in a batch run every file of the list is processed
\* whatever happened to the files before it, a filesystem error while
\* renaming an expired file included, and the exit code is 1 if and only if
\* at least one file failed, 0 otherwise.
C13_BatchProcessesEveryFile ==
    \A p \in Procs :
        BatchEnded(p) =>
            /\ Processed(p) = Files
            /\ st[p].code = IF \E f \in Files : hist[p][f].outcome # "none"
                                               /\ hist[p][f].outcome \notin Success
                            THEN 1 ELSE 0

\* C13 (what the code does): a batch run in which every processar_arquivo
\* returns processes every file and returns 1 if and only if one of them
\* failed; a batch run that an exception leaves stops at the file whose
\* rename raised, processes no file after it and returns no exit code.
C13_BatchContinuesUnlessRaised ==
    \A p \in Procs :
        /\ st[p].pc = "done" =>
              /\ Processed(p) = Files
              /\ \A f \in Files : hist[p][f].outcome # "raised"
              /\ st[p].code = IF \E f \in Files : hist[p][f].outcome = "failed"
                              THEN 1 ELSE 0
        /\ st[p].pc = "crashed" =>
              /\ cur[p].outcome = "raised" /\ cur[p].file = st[p].i
              /\ Processed(p) = 1..st[p].i
              /\ st[p].code = -1

\* The first file failed, the second was reconciled all the same, and the
\* batch run returned 1.
C13_Witness ==
    \E p \in Procs :
        /\ st[p].pc = "done" /\ st[p].code = 1
        /\ hist[p][1].run = runs[p] /\ hist[p][1].outcome = "failed"
        /\ hist[p][NFiles].run = runs[p] /\ hist[p][NFiles].outcome \in Success

-----------------------------------------------------------------------------
(* C16 *)

\* The reconciliations that have ended after verificar_validade was called
\* on the file found at the canonical path.
Verified == { r \in Ended1 : r.verdict \in {"valid", "expired", "error"} }

\* C16: verificar_validade reports a file as expired if and only if the
\* maximum of the valid dates of the column is strictly before the current
\* date.  A file with the column and at least one valid date never fails,
\* whatever its other cells hold; the date returned is that maximum; and a
\* file whose validity date is today is not expired.
C16_ExpiredIffMaxBeforeToday ==
    \A r \in Verified :
        LET content == r.fs0[Canon(r.file)]
        IN  HasDates(content) =>
              /\ r.verdict # "error"
              /\ r.data = ValidityDate(content)
              /\ \A j \in 1..Len(content) : ~DateLT(r.data, ParseCell(content[j].cell))
              /\ (r.verdict = "expired") = DateLT(ValidityDate(content), Cal(r.day))
              /\ ValidityDate(content) = Cal(r.day) => r.verdict = "valid"

\* In one batch run the first table, whose column holds a date and a text
\* that is no date, was found expired, and the second, whose validity date
\* is today, was found valid.
C16_Witness ==
    \E r \in Verified :
        /\ r.file = NFiles /\ r.verdict = "valid" /\ r.data = Cal(r.day)
        /\ hist["once"][1].run = r.run
        /\ hist["once"][1].outcome = "replaced-expired"
        /\ \E nm \in DOMAIN r.fs0 :
              /\ IsDated(nm) /\ nm.file = 1
              /\ r.fs0[nm] = OldFile
              /\ nm.date = Strftime(ValidityDate(OldFile))

-----------------------------------------------------------------------------
(* C17 *)

\* C17 (as claimed): in every reachable state the date in the name of a
\* dated file is that file's own validity date, also when a "check now"
\* reconciliation of the tray runs between the validity check and the rename
\* of the scheduler's cycle.
C17_DatedNameIsOwnDate ==
    \A nm \in DOMAIN fs :
        IsDated(nm) =>
            /\ HasDates(fs[nm])
            /\ nm.date = Strftime(ValidityDate(fs[nm]))

\* A body just downloaded, valid for years to come, lies under a dated name
\* that carries the validity date of the table it replaced, next to that
\* table, and the reconciliation that renamed it has gone on to download.
C17_Witness ==
    \E nm \in DOMAIN fs :
        /\ IsDated(nm) /\ nm.n = 1
        /\ fs[nm] = FreshBody
        /\ nm.date = Strftime(ValidityDate(OldFile))
        /\ Exists(fs, Dated(nm.file, nm.date, 0))
        /\ fs[Dated(nm.file, nm.date, 0)] = OldFile
        /\ \E p \in Procs : cur[p].renamed /\ cur[p].n = 1 /\ cur[p].file = nm.file

-----------------------------------------------------------------------------
(* C11 *)

\* C11: at most one instance is inside the loop of executar_em_background
\* at any time, however the starts of several instances in periodic modes
\* interleave, and the instance inside the loop is the one that created the
\* lock file.
C11_OneSchedulerInLoop ==
    /\ \A i, j \in Insts : (i # j /\ InLoop(i)) => ~InLoop(j)
    /\ \A i \in Insts : InLoop(i) => lock = i

\* Two instances passed the check of main together; one created the lock
\* file and is reconciling, the other found the file there and gave up.
C11_Witness ==
    \E i, j \in Insts :
        /\ i # j
        /\ inst[i].pc = "cycle" /\ Reconciling(i) /\ lock = i
        /\ inst[j].how = "lock-held" /\ runs[j] = 0

-----------------------------------------------------------------------------
(* C12 *)

\* C12 (as claimed): an instance started in a periodic mode that finds the
\* lock held ends at once, in headless mode and in tray mode, also when it
\* passed the check of main together with the holder; it reconciles nothing
\* and the lock stays with its holder.
C12_LockHeldMeansExit ==
    \A i \in Insts :
        inst[i].how = "lock-held" =>
            /\ inst[i].pc = "exited"
            /\ runs[i] = 0
            /\ lock # i

\* C12 (what the code does): executar_em_background returns 1 without a
\* cycle and without touching the lock file.  In headless mode the process
\* ends with that; in tray mode only the worker thread ends, and the
\* process stays with its icon and its menu until "Sair" is chosen.
C12_WorkerGivesUpTrayStays ==
    /\ [](\A i \in Insts :
            inst[i].how = "lock-held" =>
                /\ runs[i] = 0 /\ inst[i].code = 1 /\ lock # i
                /\ inst[i].mode = "headless" => inst[i].pc = "exited"
                /\ inst[i].mode = "tray" =>
                      inst[i].pc = IF inst[i].stop THEN "exited" ELSE "trayonly")
    /\ [][\A i \in Insts :
            (inst'[i].how = "lock-held" /\ inst'[i] # inst[i]) => lock' = lock]_vars

\* Two instances in tray mode passed the check of main together.  One holds
\* the lock and is reconciling; the worker of the other gave up, and its
\* process is still there with its tray icon.
C12_Witness ==
    \E i, j \in Insts :
        /\ i # j
        /\ inst[i].mode = "tray" /\ inst[i].pc = "cycle" /\ lock = i
        /\ inst[j].mode = "tray" /\ inst[j].how = "lock-held"
        /\ inst[j].pc = "trayonly"

-----------------------------------------------------------------------------
(* C14 *)

\* The stop flag of instance i is set while it waits between two cycles.
StoppedWaiting(i) == inst[i].stop /\ inst[i].pc = "wait"

\* C14: once the stop flag is set while executar_em_background waits
\* between two cycles, the next step of the wait leaves it without another
\* tick being waited out, no cycle is started any more, and the loop
\* eventually ends.
C14_StopEndsWait ==
    /\ [][\A i \in Insts :
            /\ (StoppedWaiting(i) /\ inst'[i] # inst[i]) =>
                  /\ inst'[i].pc = "loop"
                  /\ inst'[i].ticks = inst[i].ticks
            /\ inst[i].stop => runs'[i] = runs[i] /\ inst'[i].ticks <= inst[i].ticks
       ]_vars
    /\ \A i \in Insts : StoppedWaiting(i) ~> (inst[i].pc = "exited")

\* The stop flag was set after the first tick of a wait; the wait ended
\* there, the loop ended, and the lock file is gone.
C14_Witness ==
    \E i \in Insts :
        /\ inst[i].pc = "exited" /\ inst[i].how = "stopped"
        /\ inst[i].ticks = 1 /\ inst[i].ticks < total_segundos
        /\ runs[i] = 1 /\ st[i].pc = "done"
        /\ lock = "free"

-----------------------------------------------------------------------------
(* C15 *)

-----------------------------------------------------------------------------
(* C18 *)

\* The instance created the lock file.
Acquired(i) == inst[i].how \notin {"precheck", "lock-held"} /\ inst[i].pc \notin {"off", "passed"}

\* C18 (as claimed): an instance that created the lock file and has left
\* the periodic mode, by the stop flag, by Ctrl+C or by an exception that
\* left a cycle, has removed the lock file, so that another instance can
\* create it.
C18_LeavingRemovesLock ==
    \A i \in Insts : (Acquired(i) /\ Left(i)) => lock # i

\* C18 (what the code does): the lock file is removed when
\* executar_em_background is left through its finally: the loop ended with
\* the stop flag set, KeyboardInterrupt, an exception out of a cycle.  It is
\* not removed when the tray process ends while its worker is inside a
\* cycle: the lock file then stays for good.  The step that removes the lock
\* file is a step of the instance that created it, leaving its loop.
C18_FinallyRemovesLock ==
    /\ [](\A i \in Insts :
            /\ inst[i].how \in {"stopped", "interrupt", "raised"} => lock # i
            /\ inst[i].how = "killed" => lock = i /\ inst[i].pc = "exited")
    /\ [][(lock # "free" /\ lock' # lock) =>
            /\ lock' = "free"
            /\ InLoop(lock) /\ inst'[lock].pc \in {"exited", "trayonly"}]_vars

\* "Sair" was chosen while the worker was inside a cycle: the process ended,
\* its lock file is still there, and the instance started afterwards took
\* the monitor for running and ended.
C18_Witness ==
    \E i, j \in Insts :
        /\ i # j
        /\ inst[i].pc = "exited" /\ inst[i].how = "killed" /\ lock = i
        /\ inst[j].pc = "exited" /\ inst[j].how = "precheck"

====
